---------------------------- MODULE Spec2Model ----------------------------
(***************************************************************************)
(* EMMA Model Service (src/main.py): the cohort/term projection math and   *)
(* the three projection endpoints.                                         *)
(*                                                                         *)
(* Numbers.  Python ints are TLA+ integers.  A Python float is modelled    *)
(* exactly: a rational <<num, den>> with den > 0 (0.88 is <<22, 25>>), and *)
(* round() is round-half-to-even on the exact value.  A seasonality        *)
(* weight is an integer number of hundredths (0.28 is 28); a normalized    *)
(* weight, which the code rounds to 4 digits, is an integer number of      *)
(* ten-thousandths (0.3333 is 3333).  On the inputs drawn below no binary  *)
(* rounding error of a float changes a result, except in the growth factor *)
(* of the multi-year projections, which `grow` models bit for bit.         *)
(*                                                                         *)
(* Objects.  Python lists are objects reached through references, and      *)
(* split_starts corrects one in place, so the lists live in `heap`,        *)
(* addressed by <<frame, name>>: frame 0 holds the module's own list       *)
(* SEASONALITY (and the arguments of a direct call), frame r the lists of  *)
(* request r.  An optional JSON field is <<>> when absent and <<v>> when   *)
(* present.                                                                *)
(***************************************************************************)
EXTENDS Integers, Sequences, FiniteSets, TLC

VARIABLES
    globals,    \* the module namespace: the constants and priors of lines 14-21
    heap,       \* the list objects: reference -> its elements
    pc,         \* per request: "idle", "await_json" (line 157) or "returned"
    endpoint,   \* per request: the route it was posted to
    j,          \* per request: the JSON body req.json() yields
    result,     \* per request: the dict the handler returned
    unit        \* a direct call of one of the helpers: its arguments and return value

vars == <<globals, heap, pc, endpoint, j, result, unit>>

----------------------------------------------------------------------------
(* Bounds of the model *)

NumRequests == 2     \* requests in flight at once
MaxStarts == 7       \* largest annual_starts of a direct split_starts call
MaxTerms == 3        \* longest seasonality / starts / actives vector drawn freely
MaxWeight == 2       \* largest raw seasonality weight drawn freely
MaxCohort == 4       \* largest cohort start / active count of a direct call
RateDen == 4         \* persistence rates of a direct call are n/RateDen
MaxCredits == 2      \* largest credits_per_term of a direct call
MaxPriceNum == 4     \* prices of a direct call are n, n/10 and n/100, n up to this

----------------------------------------------------------------------------
(* Python values *)

None == <<>>
Some(v) == <<v>>
Get(o, default) == IF o = <<>> THEN default ELSE o[1]

Abs(n) == IF n < 0 THEN -n ELSE n
Max(a, b) == IF a >= b THEN a ELSE b

RECURSIVE Sum(_)
Sum(s) == IF s = <<>> THEN 0 ELSE s[1] + Sum(Tail(s))

\* round(num/den) for den > 0: to the nearest integer, a tie to the even one.
Round(num, den) ==
    LET q == num \div den
        r == num - q * den
    IN IF 2 * r < den THEN q
       ELSE IF 2 * r > den THEN q + 1
       ELSE IF q % 2 = 0 THEN q ELSE q + 1

\* int(num/den) for den > 0: truncation toward zero.
Trunc(num, den) == IF num >= 0 THEN num \div den ELSE -((-num) \div den)

\* a <= b for rationals <<num, den>>.
RatLeq(a, b) == a[1] * b[2] <= b[1] * a[2]

\* round(x, 4) keeps 4 decimal digits: one unit is 1/10000.
Scale4 == 10000

----------------------------------------------------------------------------
(* References *)

SEASONALITY_ref == <<0, "SEASONALITY">>
seasonality_ref(frame) == <<frame, "seasonality">>
Frames == 0 .. NumRequests
Refs == {SEASONALITY_ref}
          \cup {seasonality_ref(f) : f \in Frames}
          \cup {<<f, "by_term">> : f \in Frames}

\* The module-level list of line 17, as the heap holds it now.
SEASONALITY == heap[globals.SEASONALITY]

\* Python truth of an optional list reference: None and [] are false.
ListTruthy(h, oref) == oref # None /\ h[oref[1]] # <<>>

----------------------------------------------------------------------------
(* Cadence.norm, lines 39-42 *)

\* (Fault: weights that sum to 0 fall back to SEASONALITY too.)
norm_w_zero_falls_back(cadence, h) ==
    IF ListTruthy(h, cadence.seasonality) /\ Sum(h[cadence.seasonality[1]]) # 0
    THEN cadence.seasonality[1]
    ELSE globals.SEASONALITY

\* w = self.seasonality or SEASONALITY: the reference, not a copy.
norm_w(cadence, h) ==
    IF ListTruthy(h, cadence.seasonality) THEN cadence.seasonality[1]
    ELSE globals.SEASONALITY

\* s = sum(w) or 1.0, in hundredths like the weights: 1.0 is 100.
norm_s(w) == IF Sum(w) # 0 THEN Sum(w) ELSE 100

\* (Fault: the 4th digit is cut, not rounded.)
norm_entry_floor(x, s) == (Scale4 * x) \div s

\* round(x / s, 4), in ten-thousandths.
norm_entry(x, s) == Round(Scale4 * x, s)

\* The new list [round(x / s, 4) for x in w].
norm(cadence, h) ==
    LET w == h[norm_w(cadence, h)]
        s == norm_s(w)
    IN [k \in 1 .. Len(w) |-> norm_entry(w[k], s)]

----------------------------------------------------------------------------
(* split_starts, lines 72-82 *)

\* Line 75: one provisional count, max(0, round(annual_starts * w)).
provisional(annual_starts, w) == Max(0, Round(annual_starts * w, Scale4))

\* (Fault: the counts are written into the weights list itself.)
by_term_inplace(cadence, h, frame) == norm_w(cadence, h)

\* Line 75: the comprehension builds a new list object in the caller's frame.
by_term_ref(cadence, h, frame) == <<frame, "by_term">>

\* Lines 79-81: iteration i of range(abs(diff)) adds 1 (diff > 0) or -1 to
\* by_term[i % len(by_term)], in place.  The iterations commute, so entry idx
\* ends changed once per iteration that lands on it.
correction_from(first, h, by_term, diff) ==
    LET old == h[by_term]
        hits(idx) == Cardinality({i \in first .. Abs(diff) - 1 : i % Len(old) = idx})
        step == IF diff > 0 THEN 1 ELSE -1
    IN [h EXCEPT ![by_term] = [k \in 1 .. Len(old) |-> old[k] + step * hits(k - 1)]]

\* (Fault: the loop starts at i = 1.)
correction_short(h, by_term, diff) == correction_from(1, h, by_term, diff)

\* (Fault: a negative diff is left uncorrected.)
correction_up_only(h, by_term, diff) ==
    IF diff < 0 THEN h ELSE correction_from(0, h, by_term, diff)

\* The loop of line 79: for i in range(abs(diff)).
correction_loop(h, by_term, diff) == correction_from(0, h, by_term, diff)

\* The call: the reference of the returned list and the heap it leaves.
split_starts(annual_starts, cadence, h, frame) ==
    LET weights == norm(cadence, h)
        by_term == by_term_ref(cadence, h, frame)
        h1 == [h EXCEPT ![by_term] =
                  [k \in 1 .. Len(weights) |-> provisional(annual_starts, weights[k])]]
        diff == annual_starts - Sum(h1[by_term])
    IN [ret |-> by_term, heap |-> correction_loop(h1, by_term, diff)]

----------------------------------------------------------------------------
(* cohort_matrix, lines 84-105 *)

RECURSIVE Pow(_, _)
Pow(b, e) == IF e = 0 THEN 1 ELSE b * Pow(b, e - 1)

\* Lines 93-100: row i at term k >= i holds int(round(alive)), where alive is
\* s after k - i multiplications by term_persist.
cohort_entry(s, term_persist, elapsed) ==
    Round(s * Pow(term_persist[1], elapsed), Pow(term_persist[2], elapsed))

\* (Fault: k <= i instead of k < i, so the start term is zeroed as well.)
cohort_row_shifted(starts_by_term, term_persist, i) ==
    [k \in 1 .. Len(starts_by_term) |->
        IF k <= i THEN 0
        ELSE cohort_entry(starts_by_term[i], term_persist, k - i)]

\* Lines 94-100: row i; terms before the cohort's own hold 0.
cohort_row(starts_by_term, term_persist, i) ==
    [k \in 1 .. Len(starts_by_term) |->
        IF k < i THEN 0
        ELSE cohort_entry(starts_by_term[i], term_persist, k - i)]

\* Line 104: actives by term are the column sums.
actives_of(matrix) ==
    [c \in 1 .. Len(matrix) |-> Sum([i \in 1 .. Len(matrix) |-> matrix[i][c]])]

cohort_matrix(starts_by_term, term_persist) ==
    LET matrix == [i \in 1 .. Len(starts_by_term) |->
                      cohort_row(starts_by_term, term_persist, i)]
    IN [matrix |-> matrix, actives |-> actives_of(matrix)]

----------------------------------------------------------------------------
(* revenue_by_term, lines 107-110 *)

\* (Fault: per_term = credits_per_term + tuition_per_credit.)
revenue_entry_sum(a, pricing) ==
    Round(a * (pricing.credits_per_term * pricing.tuition_per_credit[2]
                 + pricing.tuition_per_credit[1]),
          pricing.tuition_per_credit[2])

\* int(round(a * per_term)) with per_term = credits_per_term * tuition_per_credit.
revenue_entry(a, pricing) ==
    Round(a * pricing.credits_per_term * pricing.tuition_per_credit[1],
          pricing.tuition_per_credit[2])

revenue_by_term(actives_by_term, pricing) ==
    [k \in 1 .. Len(actives_by_term) |-> revenue_entry(actives_by_term[k], pricing)]

----------------------------------------------------------------------------
(* Parsing helpers, lines 121-141.  float() of an int n is <<n, 1>>. *)

float_of_int(n) == <<n, 1>>

parse_pricing(jj) ==
    [tuition_per_credit |->
         Get(jj.tuition_per_credit, float_of_int(globals.TUITION_PER_CREDIT)),
     credits_per_term |-> Get(jj.credits_per_term, globals.CREDITS_PER_TERM)]

\* seasonality = c.get("seasonality") or SEASONALITY: a reference either way.
parse_cadence(jj, h) ==
    [entries_per_year  |-> globals.ENTRIES_PER_YEAR,
     term_length_weeks |-> globals.TERM_LENGTH_WEEKS,
     seasonality |-> IF ListTruthy(h, jj.seasonality) THEN jj.seasonality
                     ELSE Some(globals.SEASONALITY)]

parse_retention(jj) ==
    [term_persistence_prior |->
         Get(jj.term_persistence_prior, globals.TERM_PERSISTENCE_PRIOR),
     school_term_persistence |-> jj.school_term_persistence]

----------------------------------------------------------------------------
(* The projection endpoints, lines 154-263 *)

\* Python truth of an optional number: None and 0 are false.
NumTruthy(o) == o # None /\ o[1][1] # 0

\* Lines 161, 199, 237: school_term_persistence or term_persistence_prior.
term_persist_of(retention) ==
    IF NumTruthy(retention.school_term_persistence)
    THEN retention.school_term_persistence[1]
    ELSE retention.term_persistence_prior

\* Lines 158-166 (and again 196-204, 234-242): the locals every handler computes.
projection_locals(jj, h, frame) ==
    LET pricing == parse_pricing(jj)
        cadence == parse_cadence(jj, h)
        retention == parse_retention(jj)
        term_persist == term_persist_of(retention)
        annual_starts == Get(jj.annual_starts, 120)
        split == split_starts(annual_starts, cadence, h, frame)
        starts_by_term == split.heap[split.ret]
        cm == cohort_matrix(starts_by_term, term_persist)
    IN [pricing |-> pricing, term_persist |-> term_persist,
        annual_starts |-> annual_starts, starts_by_term |-> starts_by_term,
        actives |-> cm.actives,
        revenue_terms |-> revenue_by_term(cm.actives, pricing),
        heap |-> split.heap]

\* int(round(actives[-1] * term_persist))
completions(actives, term_persist) ==
    Round(actives[Len(actives)] * term_persist[1], term_persist[2])

\* int(sum(actives)/len(actives))
actives_avg(actives) == Trunc(Sum(actives), Len(actives))

\* The largest power of two that is <= n, for n >= 1.
RECURSIVE Pow2Floor(_)
Pow2Floor(n) == IF n < 2 THEN 1 ELSE 2 * Pow2Floor(n \div 2)

\* int(x * (1 + 0.05*(y-1))) for an int x, lines 209-210 and 247-248.  The
\* doubles 1.0, 1.05, 1.1 and 1.2 behave as the exact factors do.  The double
\* 1 + 0.05*3 lies 0.8 * 2^-53 below 1.15, so where x * 1.15 is a whole
\* number n the product is the double just below n, and int() gives n - 1,
\* exactly when n exceeds 23/16 of the power of two at or below it.
grow(x, y) ==
    LET num == Abs(x) * (100 + 5 * (y - 1))
        n == num \div 100
        below == y = 4 /\ num % 100 = 0 /\ n > 0 /\ 16 * n > 23 * Pow2Floor(n)
        m == IF below THEN n - 1 ELSE n
    IN IF x < 0 THEN -m ELSE m

\* Lines 209-216, 247-254: year y of a multi-year projection, growth 5 %/yr.
yearly_row(L, y) ==
    [starts        |-> grow(L.annual_starts, y),
     actives_avg   |-> actives_avg(L.actives),
     completions   |-> completions(L.actives, L.term_persist),
     revenue_total |-> grow(Sum(L.revenue_terms), y)]

\* Lines 169-189.  (The explain string and the static sources list are omitted.)
result_1yr(L) ==
    [ok |-> TRUE,
     inputs_used |-> [annual_starts |-> L.annual_starts,
                      term_persistence |-> L.term_persist,
                      tuition_per_credit |-> L.pricing.tuition_per_credit],
     tables_by_term |-> [i \in 1 .. Len(L.starts_by_term) |->
                            [starts |-> L.starts_by_term[i],
                             actives |-> L.actives[i],
                             revenue_term |-> L.revenue_terms[i]]],
     yearly_totals |-> [starts |-> L.annual_starts,
                        actives_avg |-> actives_avg(L.actives),
                        completions |-> completions(L.actives, L.term_persist),
                        revenue_total |-> Sum(L.revenue_terms)]]

\* Lines 206-227.
result_3yr(L) ==
    [ok |-> TRUE,
     inputs_used |-> [annual_starts |-> L.annual_starts,
                      term_persistence |-> L.term_persist],
     tables_by_term |-> [y \in 1 .. 3 |->
                            [year |-> y, revenue_total |-> yearly_row(L, y).revenue_total]],
     yearly_totals |-> [y \in 1 .. 3 |-> yearly_row(L, y)]]

\* Lines 244-263.
result_5yr(L) ==
    [ok |-> TRUE,
     inputs_used |-> [annual_starts |-> L.annual_starts,
                      term_persistence |-> L.term_persist],
     yearly_totals |-> [y \in 1 .. 5 |-> yearly_row(L, y)]]

\* What a handler returns for body jj on heap h.
handler_result(e, L) ==
    IF e = "projection_1yr" THEN result_1yr(L)
    ELSE IF e = "projection_3yr" THEN result_3yr(L)
    ELSE result_5yr(L)

\* On return the frame's locals are garbage: its by_term list is dropped.
drop_locals(h, frame) == [h EXCEPT ![<<frame, "by_term">>] = <<>>]

----------------------------------------------------------------------------
(* State after import: lines 14-21 *)

Requests == 1 .. NumRequests
Endpoints == {"projection_1yr", "projection_3yr", "projection_5yr"}

InitGlobals ==
    [ENTRIES_PER_YEAR |-> 6, TERM_LENGTH_WEEKS |-> 8,
     TERM_PERSISTENCE_PRIOR |-> <<22, 25>>,
     SEASONALITY |-> SEASONALITY_ref,
     TUITION_PER_CREDIT |-> 500, CREDITS_PER_TERM |-> 6]

InitHeap ==
    [ref \in Refs |-> IF ref = SEASONALITY_ref THEN <<28, 22, 18, 14, 10, 8>> ELSE <<>>]

NoBody ==
    [annual_starts |-> None, seasonality |-> None,
     tuition_per_credit |-> None, credits_per_term |-> None,
     term_persistence_prior |-> None, school_term_persistence |-> None]
NoResult == [ok |-> FALSE]
NoCall == [fn |-> "none", pc |-> "none", args |-> <<>>, ret |-> <<>>]

Init ==
    /\ globals = InitGlobals
    /\ heap = InitHeap
    /\ pc = [r \in Requests |-> "idle"]
    /\ endpoint = [r \in Requests |-> ""]
    /\ j = [r \in Requests |-> NoBody]
    /\ result = [r \in Requests |-> NoResult]
    /\ unit = NoCall

----------------------------------------------------------------------------
(* Requests *)

\* The bodies clients post: each block absent or overriding the defaults.
Body(annual_starts, seasonality, retention, pricing) ==
    [annual_starts |-> annual_starts, seasonality |-> seasonality,
     tuition_per_credit |-> pricing.tuition, credits_per_term |-> pricing.credits,
     term_persistence_prior |-> retention.prior,
     school_term_persistence |-> retention.school]

NoRetention == [prior |-> None, school |-> None]
NoPricing == [tuition |-> None, credits |-> None]

Bodies ==
    {Body(None, None, NoRetention, NoPricing),
     Body(None, Some(<<0, 1, 1, 1>>), NoRetention, NoPricing),
     Body(None, None, [prior |-> None, school |-> Some(<<0, 1>>)], NoPricing),
     Body(None, None, [prior |-> Some(<<9, 10>>), school |-> Some(<<3, 2>>)], NoPricing),
     Body(Some(2), Some(<<0, 1, 1, 1>>),
          [prior |-> Some(<<9, 10>>), school |-> Some(<<3, 2>>)],
          [tuition |-> Some(<<3, 10>>), credits |-> Some(1)])}

\* A request reaches endpoint e and its handler awaits req.json() (lines 157,
\* 195, 233), which builds the body's objects: the seasonality list, if the
\* body has one, is a new list of the request's own.
Receive(r, e, body) ==
    /\ pc[r] = "idle"
    /\ pc' = [pc EXCEPT ![r] = "await_json"]
    /\ endpoint' = [endpoint EXCEPT ![r] = e]
    /\ j' = [j EXCEPT ![r] =
                [body EXCEPT !.seasonality =
                    IF body.seasonality = None THEN None ELSE Some(seasonality_ref(r))]]
    /\ heap' = [heap EXCEPT ![seasonality_ref(r)] = Get(body.seasonality, <<>>)]
    /\ UNCHANGED <<globals, result, unit>>

\* The rest of a handler has no await: it runs to its return in one step.
Handler(r, e) ==
    /\ pc[r] = "await_json"
    /\ LET L == projection_locals(j[r], heap, r)
       IN /\ result' = [result EXCEPT ![r] = handler_result(e, L)]
          /\ heap' = drop_locals(L.heap, r)
    /\ pc' = [pc EXCEPT ![r] = "returned"]
    /\ UNCHANGED <<globals, endpoint, j, unit>>

projection_1yr(r) == endpoint[r] = "projection_1yr" /\ Handler(r, "projection_1yr")
projection_3yr(r) == endpoint[r] = "projection_3yr" /\ Handler(r, "projection_3yr")
projection_5yr(r) == endpoint[r] = "projection_5yr" /\ Handler(r, "projection_5yr")

\* The response is sent; the request, its body and its result are gone.
Respond(r) ==
    /\ pc[r] = "returned"
    /\ pc' = [pc EXCEPT ![r] = "idle"]
    /\ endpoint' = [endpoint EXCEPT ![r] = ""]
    /\ j' = [j EXCEPT ![r] = NoBody]
    /\ result' = [result EXCEPT ![r] = NoResult]
    /\ heap' = [heap EXCEPT ![seasonality_ref(r)] = <<>>]
    /\ UNCHANGED <<globals, unit>>

Next ==
    \E r \in Requests :
        \/ \E e \in Endpoints, body \in Bodies : Receive(r, e, body)
        \/ projection_1yr(r)
        \/ projection_3yr(r)
        \/ projection_5yr(r)
        \/ Respond(r)

Spec == Init /\ [][Next]_vars

----------------------------------------------------------------------------
(* Direct calls of the helpers, one per behaviour, in frame 0 *)

\* Cadence(seasonality=...): the other fields take the dataclass defaults.
Cadence(seasonality) ==
    [entries_per_year |-> 6, term_length_weeks |-> 8, seasonality |-> seasonality]

Vectors(max) == UNION {[1 .. n -> 0 .. max] : n \in 1 .. MaxTerms}

\* A cadence argument: no list (None), or a list of raw weights.
CadenceArgs ==
    {[cadence |-> Cadence(None), list |-> <<>>]}
      \cup {[cadence |-> Cadence(Some(seasonality_ref(0))), list |-> w] :
               w \in Vectors(MaxWeight)}

Rates == {<<n, RateDen>> : n \in -1 .. RateDen + 1}
Prices == {<<n, d>> : n \in 0 .. MaxPriceNum, d \in {1, 10, 100}}

UnitCalls ==
    {[fn |-> "norm", args |-> [cadence |-> c.cadence], list |-> c.list] :
        c \in CadenceArgs}
    \cup
    {[fn |-> "split_starts",
      args |-> [annual_starts |-> a, cadence |-> c.cadence], list |-> c.list] :
        a \in (0 .. MaxStarts) \cup {120}, c \in CadenceArgs}
    \cup
    {[fn |-> "cohort_matrix",
      args |-> [starts_by_term |-> s, term_persist |-> p], list |-> <<>>] :
        s \in Vectors(MaxCohort), p \in Rates}
    \cup
    {[fn |-> "revenue_by_term",
      args |-> [actives_by_term |-> a,
                pricing |-> [tuition_per_credit |-> p, credits_per_term |-> c]],
      list |-> <<>>] :
        a \in Vectors(MaxCohort), p \in Prices, c \in 1 .. MaxCredits}

InitUnit ==
    /\ globals = InitGlobals
    /\ pc = [r \in Requests |-> "idle"]
    /\ endpoint = [r \in Requests |-> ""]
    /\ j = [r \in Requests |-> NoBody]
    /\ result = [r \in Requests |-> NoResult]
    /\ \E c \in UnitCalls :
          /\ unit = [fn |-> c.fn, pc |-> "ready", args |-> c.args, ret |-> <<>>]
          /\ heap = [InitHeap EXCEPT ![seasonality_ref(0)] = c.list]

Ready(fn) == unit.fn = fn /\ unit.pc = "ready"
Return(v) == unit' = [unit EXCEPT !.pc = "returned", !.ret = v]

call_norm ==
    /\ Ready("norm")
    /\ Return(norm(unit.args.cadence, heap))
    /\ UNCHANGED <<globals, heap, pc, endpoint, j, result>>

\* The returned list stays alive: the caller holds it.
call_split_starts ==
    /\ Ready("split_starts")
    /\ LET out == split_starts(unit.args.annual_starts, unit.args.cadence, heap, 0)
       IN /\ Return(out.heap[out.ret])
          /\ heap' = out.heap
    /\ UNCHANGED <<globals, pc, endpoint, j, result>>

call_cohort_matrix ==
    /\ Ready("cohort_matrix")
    /\ Return(cohort_matrix(unit.args.starts_by_term, unit.args.term_persist))
    /\ UNCHANGED <<globals, heap, pc, endpoint, j, result>>

call_revenue_by_term ==
    /\ Ready("revenue_by_term")
    /\ Return(revenue_by_term(unit.args.actives_by_term, unit.args.pricing))
    /\ UNCHANGED <<globals, heap, pc, endpoint, j, result>>

NextUnit ==
    \/ call_norm
    \/ call_split_starts
    \/ call_cohort_matrix
    \/ call_revenue_by_term

SpecUnit == InitUnit /\ [][NextUnit]_vars

----------------------------------------------------------------------------
(* Properties.  Those of a helper are stated of its direct calls (SpecUnit),  *)
(* those of the endpoints of the requests (Spec).                             *)

Returned(fn) == unit.fn = fn /\ unit.pc = "returned"

\* The raw weights a direct call's cadence stands for: the caller's list, or
\* the default curve when the call gives none.
UnitWeights ==
    IF unit.args.cadence.seasonality = None THEN SEASONALITY
    ELSE heap[unit.args.cadence.seasonality[1]]
AllZero(w) == \A k \in 1 .. Len(w) : w[k] = 0

\* The provisional counts of line 75 for a direct split_starts call.
UnitProvisional ==
    LET weights == norm(unit.args.cadence, heap)
    IN [k \in 1 .. Len(weights) |-> provisional(unit.args.annual_starts, weights[k])]

\* C1: for annual_starts >= 0 and a seasonality vector with a positive weight,
\* split_starts returns one entry per weight and the entries sum to exactly
\* annual_starts.
C1_SplitSumsToAnnualStarts ==
    (Returned("split_starts") /\ ~AllZero(UnitWeights))
        => /\ Len(unit.ret) = Len(UnitWeights)
           /\ Sum(unit.ret) = unit.args.annual_starts

\* A split of caller-supplied weights whose provisional counts exceeded the total.
C1_Witness ==
    /\ Returned("split_starts")
    /\ ~AllZero(UnitWeights)
    /\ unit.args.cadence.seasonality # None
    /\ Sum(UnitProvisional) > unit.args.annual_starts

\* C2: every entry split_starts returns is >= 0, also after a negative diff
\* was corrected on a term whose provisional count is 0.
C2_SplitNonNegative ==
    (Returned("split_starts") /\ Sum(UnitWeights) > 0)
        => \A k \in 1 .. Len(unit.ret) : unit.ret[k] >= 0

\* C3: the term persistence a projection uses, echoed in inputs_used, lies in
\* [0, 0.9999] whatever retention values the body supplied.
C3_PersistenceClamped ==
    \A r \in Requests :
        pc[r] = "returned" =>
            /\ RatLeq(<<0, 1>>, result[r].inputs_used.term_persistence)
            /\ RatLeq(result[r].inputs_used.term_persistence, <<9999, 10000>>)

DefaultSplit ==
    /\ Returned("split_starts")
    /\ unit.args.annual_starts = 120
    /\ unit.args.cadence.seasonality = None

\* C4 as stated: annual_starts = 120 with the default seasonality splits
\* into [34,26,22,17,12,10].
C4_DefaultSplitAsStated == DefaultSplit => unit.ret = <<34, 26, 22, 17, 12, 10>>

\* C4 as amended: annual_starts = 120 with the default seasonality splits
\* into [33,26,22,17,12,10]; the provisional 34 of term 1 gives back the one
\* start by which the rounded counts exceed 120.
C4_DefaultSplit == DefaultSplit => unit.ret = <<33, 26, 22, 17, 12, 10>>

C4_Witness == DefaultSplit /\ UnitProvisional = <<34, 26, 22, 17, 12, 10>>

\* The revenue of the call's actives at twice the call's price.
RevenueAtDouble ==
    revenue_by_term(unit.args.actives_by_term,
        [unit.args.pricing EXCEPT !.tuition_per_credit = <<2 * @[1], @[2]>>])

Doubles == \A k \in 1 .. Len(unit.ret) : RevenueAtDouble[k] = 2 * unit.ret[k]

\* C5 as stated: at any non-negative price p, whole or not, every entry of
\* revenue_by_term at 2p is twice the entry at p.
C5_RevenueLinearAsStated == Returned("revenue_by_term") => Doubles

\* C5 as amended: at a whole-number price p, every entry of revenue_by_term
\* at 2p is twice the entry at p.
C5_RevenueLinearWholePrice ==
    (Returned("revenue_by_term") /\ unit.args.pricing.tuition_per_credit[2] = 1)
        => Doubles

C5_Witness ==
    /\ Returned("revenue_by_term")
    /\ unit.args.pricing.tuition_per_credit[2] = 1
    /\ unit.args.pricing.tuition_per_credit[1] > 1
    /\ unit.args.pricing.credits_per_term > 1
    /\ Len(unit.ret) > 1
    /\ \A k \in 1 .. Len(unit.ret) : unit.ret[k] > 0

\* C6 as stated: for weights with a positive sum, norm returns as many
\* entries as weights, and the rounded entries sum to exactly 1.
C6_NormSumsToOneAsStated ==
    (Returned("norm") /\ Sum(UnitWeights) > 0)
        => /\ Len(unit.ret) = Len(UnitWeights)
           /\ Sum(unit.ret) = Scale4

\* C6 as amended: for n weights with a positive sum s, norm returns n
\* entries, each within half a unit of the 4th decimal digit of x/s, so that
\* their sum is within n/2 such units of 1.
C6_NormSumsNearOne ==
    (Returned("norm") /\ Sum(UnitWeights) > 0)
        => /\ Len(unit.ret) = Len(UnitWeights)
           /\ \A k \in 1 .. Len(unit.ret) :
                 2 * Abs(Scale4 * UnitWeights[k] - Sum(UnitWeights) * unit.ret[k])
                     <= Sum(UnitWeights)
           /\ 2 * Abs(Sum(unit.ret) - Scale4) <= Len(unit.ret)

C6_Witness ==
    /\ Returned("norm")
    /\ Sum(UnitWeights) > 0
    /\ Sum(unit.ret) # Scale4

InUnitInterval(p) == 0 <= p[1] /\ p[1] < p[2]

\* C7: for non-negative starts and persistence in [0,1), row i of the cohort
\* matrix is 0 before term i, starts[i] at term i, and never grows after it.
C7_CohortRowsDecay ==
    (Returned("cohort_matrix") /\ InUnitInterval(unit.args.term_persist))
        => LET m == unit.ret.matrix
               T == Len(unit.args.starts_by_term)
           IN /\ Len(m) = T
              /\ \A i \in 1 .. T :
                    /\ Len(m[i]) = T
                    /\ m[i][i] = unit.args.starts_by_term[i]
                    /\ \A k \in 1 .. T : k < i => m[i][k] = 0
                    /\ \A k \in i .. T - 1 : m[i][k + 1] <= m[i][k]

C7_Witness ==
    /\ Returned("cohort_matrix")
    /\ InUnitInterval(unit.args.term_persist)
    /\ unit.args.term_persist[1] > 0
    /\ Len(unit.ret.matrix) = 3
    /\ unit.ret.matrix[2][1] = 0
    /\ unit.ret.matrix[2][2] > unit.ret.matrix[2][3]
    /\ unit.ret.matrix[2][3] > 0

\* What request r's handler returns when no other request ever ran: the
\* module as imported, plus the request's own body.
AloneResult(r) ==
    LET alone == [InitHeap EXCEPT ![seasonality_ref(r)] = heap[seasonality_ref(r)]]
    IN handler_result(endpoint[r], projection_locals(j[r], alone, r))

\* C8: however requests with different overrides interleave, the module-level
\* defaults keep their initial values, the shared SEASONALITY list included,
\* and every result is the one the request produces when run alone.
C8_RequestsIndependent ==
    /\ globals = InitGlobals
    /\ SEASONALITY = InitHeap[SEASONALITY_ref]
    /\ \A r \in Requests : pc[r] = "returned" => result[r] = AloneResult(r)

\* Two requests in flight, both handled: one fell back to SEASONALITY and had
\* its counts corrected in place, the other overrode every block.
C8_Witness ==
    \E r, q \in Requests :
        /\ r # q
        /\ pc[r] = "returned" /\ pc[q] = "returned"
        /\ j[r].seasonality = None /\ j[r].annual_starts = None
        /\ result[r].inputs_used.annual_starts = 120
        /\ j[q].seasonality # None /\ j[q].annual_starts # None
        /\ j[q].tuition_per_credit # None /\ j[q].school_term_persistence # None

\* C9: with n >= 1 weights that are all 0, norm returns n zeros, and
\* split_starts gives every term floor(annual_starts/n) starts and the first
\* annual_starts mod n terms one more, annual_starts in total.
C9_ZeroWeightsUniform ==
    LET n == Len(UnitWeights) IN
    /\ (Returned("norm") /\ AllZero(UnitWeights))
          => unit.ret = [k \in 1 .. n |-> 0]
    /\ (Returned("split_starts") /\ AllZero(UnitWeights))
          => /\ unit.ret = [k \in 1 .. n |->
                               (unit.args.annual_starts \div n)
                                 + (IF k <= unit.args.annual_starts % n THEN 1 ELSE 0)]
             /\ Sum(unit.ret) = unit.args.annual_starts

C9_Witness ==
    /\ Returned("split_starts")
    /\ AllZero(UnitWeights)
    /\ Len(UnitWeights) = 3
    /\ unit.args.annual_starts = 7
    /\ unit.ret = <<3, 2, 2>>

\* C10: a supplied retention.school_term_persistence, the value 0 included,
\* is the term persistence the projection uses; term_persistence_prior (or
\* its default) is used only when school_term_persistence is absent.
C10_SchoolPersistenceOverrides ==
    \A r \in Requests :
        pc[r] = "returned" =>
            result[r].inputs_used.term_persistence =
                IF j[r].school_term_persistence # None
                THEN j[r].school_term_persistence[1]
                ELSE Get(j[r].term_persistence_prior, globals.TERM_PERSISTENCE_PRIOR)

=============================================================================
